---- MODULE Spec2Model ----
(***************************************************************************)
(* Forex Factory calendar scraper.                                         *)
(*                                                                         *)
(*   Spec      the run coordinator of app.py: the two trigger endpoints    *)
(*             and the scrape_month worker threads, interleaved statement  *)
(*             by statement on the shared scraping_status dictionary.      *)
(*   SpecNorm  one pass of utils.reformat_data over a list of raw rows,    *)
(*             one loop iteration per step.                                *)
(*   SpecConv  one call of utils.convert_time_zone on string arguments.    *)
(*   SpecSave  one call of utils.save_data: the tabular backend, then      *)
(*             convex_client.save_to_convex, one remote call per step.     *)
(*   SpecLog   app.add_activity_log called from the worker threads while   *)
(*             GET /logs reads the list.                                   *)
(***************************************************************************)
EXTENDS Integers, Sequences, FiniteSets, TLC

VARIABLES
    is_running,      \* scraping_status["is_running"]
    current_month,   \* scraping_status["current_month"]
    last_run,        \* scraping_status["last_run"]
    last_error,      \* scraping_status["last_error"]
    success_count,   \* scraping_status["success_count"]
    error_count,     \* scraping_status["error_count"]
    req,             \* the trigger requests: position, arguments, response
    wk,              \* the scrape_month threads, one per accepted request
    data,            \* reformat_data: the raw rows
    idx,             \* reformat_data: rows consumed by the for loop
    current_date,    \* reformat_data: carried date
    current_day,     \* reformat_data: carried day
    current_time,    \* reformat_data: carried time
    structured_rows, \* reformat_data: the records emitted so far
    origin,          \* for each emitted record, the index of its raw row
    conv_args,       \* convert_time_zone: the arguments of the call
    conv_result,     \* convert_time_zone: what the call returned
    save_args,       \* save_data: the arguments of the call
    client,          \* convex_client.client
    save_pc,         \* save_data / save_to_convex: position
    results,         \* save_data: the results dictionary
    csv_file,        \* save_csv: the records written to the CSV file
    clean_data,      \* save_to_convex: the transformed records
    rec_i,           \* save_to_convex: records the loop has gone through
    saved_count,     \* save_to_convex: saved_count
    calls,           \* every client.mutation call issued, in order
    convex_result,   \* what save_to_convex returned
    convex_data,     \* save_to_convex: the records it was called with
    activity_logs,   \* app.activity_logs
    log_pc,          \* add_activity_log: position of each calling thread
    log_count,       \* add_activity_log calls begun so far
    logs_response    \* the last response of GET /logs

statusVars == <<is_running, current_month, last_run, last_error,
                success_count, error_count>>
coordVars == <<is_running, current_month, last_run, last_error,
               success_count, error_count, req, wk>>
normVars == <<data, idx, current_date, current_day, current_time,
              structured_rows, origin>>
convVars == <<conv_args, conv_result>>
saveVars == <<save_args, client, save_pc, results, csv_file, clean_data,
              rec_i, saved_count, calls, convex_result, convex_data>>
logVars == <<activity_logs, log_pc, log_count, logs_response>>
vars == <<is_running, current_month, last_run, last_error, success_count,
          error_count, req, wk, data, idx, current_date, current_day,
          current_time, structured_rows, origin, conv_args, conv_result,
          save_args, client, save_pc, results, csv_file, clean_data, rec_i,
          saved_count, calls, convex_result, convex_data, activity_logs,
          log_pc, log_count, logs_response>>

None == "None"

(***************************************************************************)
(* Bounds.                                                                 *)
(***************************************************************************)
MaxRequests == 2
\* Threads that call add_activity_log.
MaxWriters == 2
\* Calls of add_activity_log.
MaxLogCalls == 52
MaxRows == 3

Requests == 1..MaxRequests
Writers == 1..MaxWriters

(***************************************************************************)
(* app.py: the trigger endpoints.                                          *)
(***************************************************************************)

\* str.lower() on the month selectors the requests are drawn from.
Lower(s) ==
    CASE s = "June" -> "june"
      [] s = "Smarch" -> "smarch"
      [] OTHER -> s

valid_months ==
    {"this", "next", "january", "february", "march", "april", "may", "june",
     "july", "august", "september", "october", "november", "december"}

\* The <month> path segments requests are drawn from.
MonthInputs == {"June", "Smarch"}

NoResponse == [code |-> 0, current_month |-> None, valid_months |-> None]

NewRequest == [pc |-> "new", kind |-> None, month |-> None, resp |-> NoResponse]

NoThread == [pc |-> "none", month_param |-> None, driver |-> "unbound",
             e |-> None, count |-> 0]

\* threading.Thread(target=scrape_month, args=[m]).start()
StartThread(r, m) ==
    wk' = [wk EXCEPT ![r] = [NoThread EXCEPT !.pc = "l195", !.month_param = m]]

\* Requests are numbered in the order their handlers begin.
Arrives(r) ==
    /\ req[r].pc = "new"
    /\ \A q \in Requests : q < r => req[q].pc # "new"

Conflict(r, kind, month) ==
    /\ req' = [req EXCEPT ![r] = [pc |-> "conflict", kind |-> kind,
                                  month |-> month, resp |-> NoResponse]]
    /\ UNCHANGED wk

\* The 200 and 400 responses; only the 400 body lists valid_months.
Respond(r, kind, month, code) ==
    req' = [req EXCEPT ![r] =
              [pc |-> "done", kind |-> kind, month |-> month,
               resp |-> [code |-> code, current_month |-> None,
                         valid_months |-> IF code = 400 THEN valid_months
                                                        ELSE None]]]

\* /scrape with the is_running test left out.
scrape_current_Unguarded(r) ==
    /\ Arrives(r)
    /\ StartThread(r, "this")
    /\ Respond(r, "scrape", "this", 200)
    /\ UNCHANGED statusVars

\* /scrape: the is_running test, then the thread start and the 200 response.
scrape_current(r) ==
    /\ Arrives(r)
    /\ IF is_running
         THEN Conflict(r, "scrape", "this")
         ELSE /\ StartThread(r, "this")
              /\ Respond(r, "scrape", "this", 200)
    /\ UNCHANGED statusVars

\* /scrape/<month> with the validation of the month left out.
scrape_specific_month_Unvalidated(r, month) ==
    /\ Arrives(r)
    /\ IF is_running
         THEN Conflict(r, "month", month)
         ELSE /\ StartThread(r, Lower(month))
              /\ Respond(r, "month", month, 200)
    /\ UNCHANGED statusVars

\* /scrape/<month>: the is_running test, the validation, the thread start.
scrape_specific_month(r, month) ==
    /\ Arrives(r)
    /\ IF is_running
         THEN Conflict(r, "month", month)
         ELSE IF Lower(month) \notin valid_months
                THEN /\ Respond(r, "month", month, 400)
                     /\ UNCHANGED wk
                ELSE /\ StartThread(r, Lower(month))
                     /\ Respond(r, "month", month, 200)
    /\ UNCHANGED statusVars

\* The 409 body: scraping_status["current_month"] is read after the test.
ConflictResponse(r) ==
    /\ req[r].pc = "conflict"
    /\ req' = [req EXCEPT ![r].pc = "done",
                          ![r].resp = [code |-> 409,
                                       current_month |-> current_month,
                                       valid_months |-> None]]
    /\ UNCHANGED <<statusVars, wk>>

(***************************************************************************)
(* app.py: scrape_month, the body of a worker thread.  Every statement     *)
(* that reads or writes scraping_status is a step of its own; the calls    *)
(* into the browser driver either return or raise.                         *)
(***************************************************************************)
At(r, p) == wk[r].pc = p

Goto(r, p) == wk' = [wk EXCEPT ![r].pc = p]

\* An exception leaves the try block for the except clause at line 274.
Raise(r, what) == wk' = [wk EXCEPT ![r].pc = "e279", ![r].e = what]

\* The thread ends: its locals are gone, the driver object is as it was left.
Finish(r, driver) ==
    wk' = [wk EXCEPT ![r] = [NoThread EXCEPT !.pc = "done", !.driver = driver]]

\* scraping_status["is_running"] = True
SetRunning(r) ==
    /\ At(r, "l195")
    /\ is_running' = TRUE
    /\ Goto(r, "l196")
    /\ UNCHANGED <<current_month, last_run, last_error, success_count,
                   error_count, req>>

\* scraping_status["current_month"] = month_param
SetCurrentMonth(r) ==
    /\ At(r, "l196")
    /\ current_month' = wk[r].month_param
    /\ Goto(r, "l197")
    /\ UNCHANGED <<is_running, last_run, last_error, success_count,
                   error_count, req>>

\* scraping_status["last_error"] = None
ClearLastError(r) ==
    /\ At(r, "l197")
    /\ last_error' = None
    /\ Goto(r, "try")
    /\ UNCHANGED <<is_running, current_month, last_run, success_count,
                   error_count, req>>

\* The try body from init_driver() to save_data() touches no shared status:
\* lines 203-264 of one thread are one step, ending at the first call that
\* raises or at the return of save_data.

\* driver = init_driver() raises: the local driver is never bound.
InitDriverFails(r) ==
    /\ At(r, "try")
    /\ wk' = [wk EXCEPT ![r].pc = "e279", ![r].month_param = None,
                        ![r].e = "init_driver failed"]
    /\ UNCHANGED <<statusVars, req>>

\* The try body raises with the driver acquired and quit not yet called:
\* driver.get / execute_script / scroll_to_end, or parse_table.
BrowserFails(r, what) ==
    /\ At(r, "try")
    /\ wk' = [wk EXCEPT ![r].pc = "e279", ![r].month_param = None,
                        ![r].driver = "open", ![r].e = what]
    /\ UNCHANGED <<statusVars, req>>

NavigationFails(r) == BrowserFails(r, "navigation failed")

ParseTableFails(r) == BrowserFails(r, "parse_table failed")

\* driver.quit() of line 242 raises: quit has been called, the exception
\* goes to the except clause of line 274.
DriverQuitFails(r) ==
    /\ At(r, "try")
    /\ wk' = [wk EXCEPT ![r].pc = "e279", ![r].month_param = None,
                        ![r].driver = "quit failed",
                        ![r].e = "driver.quit failed"]
    /\ UNCHANGED <<statusVars, req>>

\* Every call returns: the driver is quit at line 242, then save_data, which
\* catches the exceptions of both backends, returns its result.
ScrapeAndSave(r) ==
    /\ At(r, "try")
    /\ wk' = [wk EXCEPT ![r].pc = "s267", ![r].month_param = None,
                        ![r].driver = "closed"]
    /\ UNCHANGED <<statusVars, req>>

\* The statement is_running = False of worker r at position p, going to q.
SetIdle(r, p, q) ==
    /\ At(r, p)
    /\ is_running' = FALSE
    /\ Goto(r, q)
    /\ UNCHANGED <<current_month, last_run, last_error, success_count,
                   error_count, req>>

\* The statement current_month = None of worker r at position p, going to q.
ClearCurrentMonth(r, p, q) ==
    /\ At(r, p)
    /\ current_month' = None
    /\ Goto(r, q)
    /\ UNCHANGED <<is_running, last_run, last_error, success_count,
                   error_count, req>>

\* x += 1 on a dictionary entry is a read, an add and a store.
ReadCount(r, p, q, counter) ==
    /\ At(r, p)
    /\ wk' = [wk EXCEPT ![r].pc = q, ![r].count = counter]
    /\ UNCHANGED <<statusVars, req>>

SuccessSetIdle(r) == SetIdle(r, "s267", "s268")

SuccessClearMonth(r) == ClearCurrentMonth(r, "s268", "s269")

\* scraping_status["last_run"] = datetime.now().isoformat()
SetLastRun(r) ==
    /\ At(r, "s269")
    /\ last_run' = "timestamp"
    /\ Goto(r, "s270r")
    /\ UNCHANGED <<is_running, current_month, last_error, success_count,
                   error_count, req>>

SuccessReadCount(r) == ReadCount(r, "s270r", "s270w", success_count)

\* scraping_status["success_count"] += 1, the store
SuccessWriteCount(r) ==
    /\ At(r, "s270w")
    /\ success_count' = wk[r].count + 1
    /\ Finish(r, wk[r].driver)
    /\ UNCHANGED <<is_running, current_month, last_run, last_error,
                   error_count, req>>

ErrorSetIdle(r) == SetIdle(r, "e279", "e280")

ErrorClearMonth(r) == ClearCurrentMonth(r, "e280", "e281")

\* scraping_status["last_error"] = str(e)
SetLastError(r) ==
    /\ At(r, "e281")
    /\ last_error' = wk[r].e
    /\ wk' = [wk EXCEPT ![r].pc = "e282r", ![r].e = None]
    /\ UNCHANGED <<is_running, current_month, last_run, success_count,
                   error_count, req>>

ErrorReadCount(r) == ReadCount(r, "e282r", "e282w", error_count)

\* scraping_status["error_count"] += 1, the store
ErrorWriteCount(r) ==
    /\ At(r, "e282w")
    /\ error_count' = wk[r].count + 1
    /\ wk' = [wk EXCEPT ![r].pc = "cleanup", ![r].count = 0]
    /\ UNCHANGED <<is_running, current_month, last_run, last_error,
                   success_count, req>>

\* The except clause ending without lines 289-294: quit is not called.
Cleanup_NoRelease(r) ==
    /\ At(r, "cleanup")
    /\ Finish(r, wk[r].driver)
    /\ UNCHANGED <<statusVars, req>>

\* Lines 289-294: if 'driver' in locals(): driver.quit(), which returns or
\* raises; the bare except swallows what it raises.
Cleanup(r) ==
    /\ At(r, "cleanup")
    /\ IF wk[r].driver = "unbound"
         THEN Finish(r, "unbound")
         ELSE \/ Finish(r, "closed")
              \/ Finish(r, "quit failed")
    /\ UNCHANGED <<statusVars, req>>

NormIdle ==
    /\ data = <<>>
    /\ idx = 0
    /\ current_date = ""
    /\ current_day = ""
    /\ current_time = ""
    /\ structured_rows = <<>>
    /\ origin = <<>>

\* A call that has not returned.
Pending == [pending |-> TRUE]

\* No call of convert_time_zone is under way.
ConvIdle ==
    /\ conv_args = None
    /\ conv_result = Pending

\* No call of save_data is under way.
SaveIdle ==
    /\ save_args = None
    /\ client = None
    /\ save_pc = "idle"
    /\ results = None
    /\ csv_file = None
    /\ clean_data = <<>>
    /\ rec_i = 0
    /\ saved_count = 0
    /\ calls = <<>>
    /\ convex_result = Pending
    /\ convex_data = <<>>

\* app.py line 47, and no thread inside add_activity_log.
LogIdle ==
    /\ activity_logs = <<>>
    /\ log_pc = [w \in Writers |-> "idle"]
    /\ log_count = 0
    /\ logs_response = Pending

\* app.py lines 37-44, no request received and no thread started.
CoordIdle ==
    /\ is_running = FALSE
    /\ current_month = None
    /\ last_run = None
    /\ last_error = None
    /\ success_count = 0
    /\ error_count = 0
    /\ req = [r \in Requests |-> NewRequest]
    /\ wk = [r \in Requests |-> NoThread]

Init ==
    /\ CoordIdle
    /\ NormIdle
    /\ ConvIdle
    /\ SaveIdle
    /\ LogIdle

Next ==
    \/ \E r \in Requests : scrape_current(r) /\ UNCHANGED <<normVars, convVars, saveVars, logVars>>
    \/ \E r \in Requests : \E month \in MonthInputs :
           scrape_specific_month(r, month) /\ UNCHANGED <<normVars, convVars, saveVars, logVars>>
    \/ \E r \in Requests : ConflictResponse(r) /\ UNCHANGED <<normVars, convVars, saveVars, logVars>>
    \/ \E r \in Requests : SetRunning(r) /\ UNCHANGED <<normVars, convVars, saveVars, logVars>>
    \/ \E r \in Requests : SetCurrentMonth(r) /\ UNCHANGED <<normVars, convVars, saveVars, logVars>>
    \/ \E r \in Requests : ClearLastError(r) /\ UNCHANGED <<normVars, convVars, saveVars, logVars>>
    \/ \E r \in Requests : InitDriverFails(r) /\ UNCHANGED <<normVars, convVars, saveVars, logVars>>
    \/ \E r \in Requests : NavigationFails(r) /\ UNCHANGED <<normVars, convVars, saveVars, logVars>>
    \/ \E r \in Requests : ParseTableFails(r) /\ UNCHANGED <<normVars, convVars, saveVars, logVars>>
    \/ \E r \in Requests : DriverQuitFails(r) /\ UNCHANGED <<normVars, convVars, saveVars, logVars>>
    \/ \E r \in Requests : ScrapeAndSave(r) /\ UNCHANGED <<normVars, convVars, saveVars, logVars>>
    \/ \E r \in Requests : SuccessSetIdle(r) /\ UNCHANGED <<normVars, convVars, saveVars, logVars>>
    \/ \E r \in Requests : SuccessClearMonth(r) /\ UNCHANGED <<normVars, convVars, saveVars, logVars>>
    \/ \E r \in Requests : SetLastRun(r) /\ UNCHANGED <<normVars, convVars, saveVars, logVars>>
    \/ \E r \in Requests : SuccessReadCount(r) /\ UNCHANGED <<normVars, convVars, saveVars, logVars>>
    \/ \E r \in Requests : SuccessWriteCount(r) /\ UNCHANGED <<normVars, convVars, saveVars, logVars>>
    \/ \E r \in Requests : ErrorSetIdle(r) /\ UNCHANGED <<normVars, convVars, saveVars, logVars>>
    \/ \E r \in Requests : ErrorClearMonth(r) /\ UNCHANGED <<normVars, convVars, saveVars, logVars>>
    \/ \E r \in Requests : SetLastError(r) /\ UNCHANGED <<normVars, convVars, saveVars, logVars>>
    \/ \E r \in Requests : ErrorReadCount(r) /\ UNCHANGED <<normVars, convVars, saveVars, logVars>>
    \/ \E r \in Requests : ErrorWriteCount(r) /\ UNCHANGED <<normVars, convVars, saveVars, logVars>>
    \/ \E r \in Requests : Cleanup(r) /\ UNCHANGED <<normVars, convVars, saveVars, logVars>>

Spec == Init /\ [][Next]_vars

(***************************************************************************)
(* The run coordinator: properties.                                        *)
(***************************************************************************)
Active(r) == wk[r].pc \notin {"none", "done"}

\* Request r begins to be handled in this step.
Handled(r) == req[r].pc = "new" /\ req'[r].pc # "new"

InvalidMonth(q) == q.kind = "month" /\ Lower(q.month) \notin valid_months

\* C1: at most one scrape_month worker is active at any time, whatever the
\* interleaving of triggers and workers.
C1_AtMostOneWorker == Cardinality({r \in Requests : Active(r)}) <= 1

\* C2: a trigger handled while is_running is true is answered 409 and starts
\* no worker thread: the handler that tests is_running true goes to its
\* conflict response and leaves the threads as they are, and the conflict
\* response carries 409 and leaves the threads as they are.
C2_ConflictWhileRunning ==
    [][\A r \in Requests :
         /\ (Handled(r) /\ is_running) =>
                (req'[r].pc = "conflict" /\ wk' = wk)
         /\ (req[r].pc = "conflict" /\ req'[r].pc # "conflict") =>
                (req'[r].resp.code = 409 /\ wk' = wk /\ wk[r].pc = "none")
      ]_vars

\* C2 witness: a request was answered 409 and has no thread, while the run
\* it collided with is still active.
C2_Witness ==
    \E r \in Requests :
        /\ req[r].resp.code = 409
        /\ wk[r].pc = "none"
        /\ \E q \in Requests : Active(q)

\* C3: success_count and error_count never decrease, and the run that
\* completes its status update raises exactly one of them by exactly 1.
C3_CountersCountRuns ==
    [][/\ success_count' >= success_count
       /\ error_count' >= error_count
       /\ \A r \in Requests :
            /\ (wk[r].pc = "s270w" /\ wk'[r].pc # "s270w") =>
                   (success_count' = success_count + 1
                      /\ error_count' = error_count)
            /\ (wk[r].pc = "e282w" /\ wk'[r].pc # "e282w") =>
                   (error_count' = error_count + 1
                      /\ success_count' = success_count)
      ]_vars

\* C4: every run performs the running -> idle transition exactly once: each
\* run executes one end-of-run status update (line 267 or line 279), and
\* that update takes the coordinator from running to idle.
C4_RunningToIdleOncePerRun ==
    [][\A r \in Requests :
         (wk[r].pc \in {"s267", "e279"} /\ wk'[r].pc # wk[r].pc) =>
             (is_running /\ ~is_running')
      ]_vars

\* C5 as claimed: a /scrape/<month> request with a month outside the
\* enumerated set is answered 400 with the valid months and starts no run,
\* whatever the coordinator state.
C5_InvalidMonthAlways400 ==
    \A r \in Requests :
        (req[r].pc = "done" /\ InvalidMonth(req[r])) =>
            /\ req[r].resp.code = 400
            /\ req[r].resp.valid_months = valid_months
            /\ wk[r].pc = "none"

\* C5 amended: a /scrape/<month> request with a month outside the enumerated
\* set never starts a run; it is answered 400 with the valid months when the
\* handler finds is_running false, and 409 when it finds is_running true.
C5_InvalidMonthRejected ==
    [][\A r \in Requests :
         /\ (Handled(r) /\ InvalidMonth(req'[r])) =>
                /\ wk' = wk
                /\ wk[r].pc = "none"
                /\ IF is_running
                     THEN req'[r].pc = "conflict"
                     ELSE /\ req'[r].pc = "done"
                          /\ req'[r].resp.code = 400
                          /\ req'[r].resp.valid_months = valid_months
         /\ (req[r].pc = "conflict" /\ req'[r].pc # "conflict"
               /\ InvalidMonth(req[r])) =>
                (req'[r].resp.code = 409 /\ wk' = wk /\ wk[r].pc = "none")
      ]_vars

\* C5 witness: a request with an invalid month was answered 400 while no run
\* was started for it, after an earlier request did start a run.
C5_Witness ==
    \E r \in Requests :
        /\ InvalidMonth(req[r])
        /\ req[r].resp.code = 400
        /\ wk[r].pc = "none"
        /\ \E q \in Requests : q < r /\ wk[q].pc # "none"

\* C6: every 409 response reports the month of the run in flight, never an
\* absent month.
C6_ConflictNamesMonth ==
    \A r \in Requests :
        req[r].resp.code = 409 => req[r].resp.current_month # None

\* C20: a run that acquired the driver never ends without quit having been
\* called on it, whichever step raised; the release of lines 289-294 always
\* ends the run normally, whether quit returns or raises, and leaves
\* last_error as the except clause recorded it.
C20_DriverReleasedOnEveryPath ==
    /\ [](\A r \in Requests : wk[r].pc = "done" => wk[r].driver # "open")
    /\ [][\A r \in Requests :
             (At(r, "cleanup") /\ wk'[r] # wk[r])
                => /\ wk'[r].pc = "done"
                   /\ last_error' = last_error]_vars

\* parse_table raised, quit raised in the release, and the error recorded is
\* the one of parse_table.
C20_Witness ==
    \E r \in Requests :
        /\ wk[r].pc = "done"
        /\ wk[r].driver = "quit failed"
        /\ last_error = "parse_table failed"

(***************************************************************************)
(* utils.py: the row normalizer.  A raw row is a function from the keys it *)
(* has to strings; a text is split into its words by a table over the      *)
(* texts the rows are drawn from.                                          *)
(***************************************************************************)
Year == "2025"

\* config.py is not part of the sources: the allow-lists and the target
\* zone are the ones of the specification's scenarios.
ALLOWED_CURRENCY_CODES == {"USD"}

ALLOWED_IMPACT_COLORS == {"red", "orange"}

TARGET_TIMEZONE == "America/New_York"

Weekdays == {"Mon", "Tue", "Wed", "Thu", "Fri", "Sat", "Sun"}

MonthAbbrs == <<"Jan", "Feb", "Mar", "Apr", "May", "Jun",
                "Jul", "Aug", "Sep", "Oct", "Nov", "Dec">>

\* The words of a date text (the pattern's \b and \s+ separate words).
Words(text) ==
    CASE text = "Sun Jun 1" -> <<"Sun", "Jun", "1">>
      [] text = "Mon Jun 2" -> <<"Mon", "Jun", "2">>
      [] text = "Holiday" -> <<"Holiday">>
      [] OTHER -> <<>>

\* int(match.group("date")) for a word matching \d{1,2}, -1 for any other.
DayNumber(word) ==
    CASE word = "1" -> 1
      [] word = "2" -> 2
      [] OTHER -> -1

\* datetime.strptime(month_abbr, "%b").month
MonthNumber(abbr) == CHOOSE m \in 1..12 : MonthAbbrs[m] = abbr

\* f"{n:02d}"
Pad2(n) == IF n < 10 THEN "0" \o ToString(n) ELSE ToString(n)

\* f"{day}/{month_number}/{year}", without the zero padding
FormatDate_Unpadded(day, month_number, year) ==
    ToString(day) \o "/" \o ToString(month_number) \o "/" \o year

\* f"{day:02d}/{month_number:02d}/{year}"
FormatDate(day, month_number, year) ==
    Pad2(day) \o "/" \o Pad2(month_number) \o "/" \o year

NoMatch == [day |-> None, date |-> None]

\* re.search of <weekday> <month> <day number>: the leftmost match.
extract_date_parts(text, year) ==
    LET w == Words(text)
        hits == {i \in 1..(Len(w) - 2) :
                    /\ w[i] \in Weekdays
                    /\ \E m \in 1..12 : MonthAbbrs[m] = w[i + 1]
                    /\ DayNumber(w[i + 2]) >= 0}
    IN  IF hits = {}
          THEN NoMatch
          ELSE LET i == CHOOSE h \in hits : \A g \in hits : h <= g
               IN  [day |-> w[i],
                    date |-> FormatDate(DayNumber(w[i + 2]),
                                        MonthNumber(w[i + 1]), year)]

\* str.strip() on the time texts the rows are drawn from.
Strip(s) ==
    CASE s = " empty " -> "empty"
      [] OTHER -> s

\* str.lower() on the texts of the time and impact fields.
LowerText(s) ==
    CASE s = "All Day" -> "all day"
      [] s = "ALL DAY" -> "all day"
      [] s = "Tentative" -> "tentative"
      [] s = "TENTATIVE" -> "tentative"
      [] s = "Red" -> "red"
      [] s = "RED" -> "red"
      [] s = "Gray" -> "gray"
      [] OTHER -> s

\* What strptime's "%I:%M%p" reads in a time text: hour, minute, am/pm;
\* no entry for a text it rejects.
ClockTexts ==
    [t \in {"3:00am", "1:30pm", "12:00am", "12:30pm"} |->
        CASE t = "3:00am" -> [hour |-> 3, minute |-> 0, pm |-> FALSE]
          [] t = "1:30pm" -> [hour |-> 1, minute |-> 30, pm |-> TRUE]
          [] t = "12:00am" -> [hour |-> 12, minute |-> 0, pm |-> FALSE]
          [] t = "12:30pm" -> [hour |-> 12, minute |-> 30, pm |-> TRUE]]

DaysInMonth(m) == IF m = 2 THEN 28 ELSE IF m \in {4, 6, 9, 11} THEN 30 ELSE 31

\* The date texts strptime's "%d/%m/%Y" accepts for the year of the pass.
ValidDates ==
    {FormatDate(d, m, Year) : d \in 1..DaysInMonth(6), m \in {6}}

\* The zone names pytz.timezone finds, with their offset from UTC in
\* minutes on the dates of the pass; any other name raises.
UtcOffset ==
    [z \in {"Europe/Berlin", "America/New_York", "UTC"} |->
        CASE z = "Europe/Berlin" -> 120
          [] z = "America/New_York" -> 0 - 240
          [] z = "UTC" -> 0]

KnownZones == DOMAIN UtcOffset

\* astimezone: the minutes between two zones on the dates of the pass.
ZoneShift(from_zone_str, to_zone_str) ==
    UtcOffset[to_zone_str] - UtcOffset[from_zone_str]

\* strftime("%H:%M") of a minute of the day
FormatClock(minutes) == Pad2(minutes \div 60) \o ":" \o Pad2(minutes % 60)

\* How a call ends: with a value, or with an exception.
Returned(value) == [raised |-> FALSE, value |-> value]
Raised(exc) == [raised |-> TRUE, exc |-> exc]

\* Lines 188-196, the body of the try block.
TryConvert(date_str, time_str, from_zone_str, to_zone_str) ==
    IF from_zone_str \notin KnownZones \/ to_zone_str \notin KnownZones
      THEN Raised("UnknownTimeZoneError")
      ELSE IF date_str \notin ValidDates \/ time_str \notin DOMAIN ClockTexts
        THEN Raised("ValueError")
        ELSE LET c == ClockTexts[time_str]
                 naive == ((c.hour % 12) + (IF c.pm THEN 12 ELSE 0)) * 60
                             + c.minute
             IN  Returned(FormatClock(
                     (naive + ZoneShift(from_zone_str, to_zone_str)) % 1440))

\* convert_time_zone whose try block has no except clause.
convert_time_zone_Unguarded(date_str, time_str, from_zone_str, to_zone_str) ==
    IF time_str = "" \/ date_str = ""
      THEN Returned(time_str)
      ELSE IF LowerText(time_str) \in {"all day", "tentative"}
        THEN Returned(time_str)
        ELSE TryConvert(date_str, time_str, from_zone_str, to_zone_str)

convert_time_zone(date_str, time_str, from_zone_str, to_zone_str) ==
    IF time_str = "" \/ date_str = ""
      THEN Returned(time_str)
      ELSE IF LowerText(time_str) \in {"all day", "tentative"}
        THEN Returned(time_str)
        ELSE LET try == TryConvert(date_str, time_str,
                                   from_zone_str, to_zone_str)
             IN  IF try.raised THEN Returned(time_str) ELSE try

\* filter_row that tests the currency only.
filter_row_CurrencyOnly(row) == row["currency"] \in ALLOWED_CURRENCY_CODES

\* filter_row that compares the impact without lower-casing it.
filter_row_CaseSensitive(row) ==
    /\ row["currency"] \in ALLOWED_CURRENCY_CODES
    /\ row["impact"] \in ALLOWED_IMPACT_COLORS

\* filter_row: FALSE for the rejected row, TRUE for the row returned.
filter_row(row) ==
    /\ row["currency"] \in ALLOWED_CURRENCY_CODES
    /\ LowerText(row["impact"]) \in ALLOWED_IMPACT_COLORS

\* row.get(key, "")
Get(row, key) == IF key \in DOMAIN row THEN row[key] ELSE ""

Carry(date, day, time) == [date |-> date, day |-> day, time |-> time]

\* Lines 56-60 with the carried date cleared when the text does not match.
CarryDate_ClearOnNoMatch(carry, row, year) ==
    IF "date" \in DOMAIN row /\ row["date"] # "empty"
      THEN LET date_parts == extract_date_parts(row["date"], year)
           IN  IF date_parts # NoMatch
                 THEN Carry(date_parts.date, date_parts.day, carry.time)
                 ELSE Carry("", "", carry.time)
      ELSE carry

\* Lines 56-60: the carried date and day after the row's date field.
CarryDate(carry, row, year) ==
    IF "date" \in DOMAIN row /\ row["date"] # "empty"
      THEN LET date_parts == extract_date_parts(row["date"], year)
           IN  IF date_parts # NoMatch
                 THEN Carry(date_parts.date, date_parts.day, carry.time)
                 ELSE carry
      ELSE carry

\* Lines 62-66 with the converted time kept as the carried time.
CarryTime_Converted(carry, row) ==
    IF "time" \in DOMAIN row /\ row["time"] # "empty"
      THEN Carry(carry.date, carry.day,
                 convert_time_zone(carry.date, Strip(row["time"]),
                                   "Europe/Berlin", TARGET_TIMEZONE).value)
      ELSE carry

\* Lines 62-66: the carried time after the row's time field.
CarryTime(carry, row) ==
    IF "time" \in DOMAIN row /\ row["time"] # "empty"
      THEN Carry(carry.date, carry.day, Strip(row["time"]))
      ELSE carry

CopiedKeys == {"currency", "impact", "event", "detail", "actual",
               "forecast", "previous"}

\* Lines 88-91 applied to the copied fields only.
ReplaceEmpty_NamedFieldsOnly(new_row) ==
    [k \in DOMAIN new_row |->
        IF new_row[k] = "empty" /\ k \in CopiedKeys THEN "" ELSE new_row[k]]

\* Lines 88-91: every value equal to "empty" becomes "".
ReplaceEmpty(new_row) ==
    [k \in DOMAIN new_row |-> IF new_row[k] = "empty" THEN "" ELSE new_row[k]]

\* Lines 54 and 71-91: the candidate record of a row that is not skipped.
Candidate(carry, row) ==
    LET time == IF TARGET_TIMEZONE # ""
                  THEN convert_time_zone(carry.date, carry.time,
                                         "Europe/Berlin",
                                         TARGET_TIMEZONE).value
                  ELSE carry.time
        new_row == [k \in DOMAIN row \cup {"day", "date", "time"}
                               \cup CopiedKeys |->
                       CASE k = "day" -> carry.day
                         [] k = "date" -> carry.date
                         [] k = "time" -> time
                         [] k \in CopiedKeys -> Get(row, k)
                         [] OTHER -> row[k]]
    IN  ReplaceEmpty(new_row)

\* The raw rows a pass is drawn from.
RowOf(date, time, currency, impact, event) ==
    [k \in {"date", "time", "currency", "impact", "event"} |->
        CASE k = "date" -> date
          [] k = "time" -> time
          [] k = "currency" -> currency
          [] k = "impact" -> impact
          [] OTHER -> event]

EventRows ==
    {RowOf(d, t, "USD", "Red", "CPI") :
        d \in {"empty", "Sun Jun 1", "Mon Jun 2", "Holiday"},
        t \in {"empty", "3:00am"}}

OtherRows ==
    { [date |-> "Mon Jun 2"],
      [time |-> "1:30pm"],
      RowOf("Mon Jun 2", "empty", "empty", "empty", "empty"),
      RowOf("empty", "empty", "USD", "empty", "empty"),
      RowOf("Mon Jun 2", "3:00am", "EUR", "Red", "CPI"),
      RowOf("empty", "empty", "EUR", "Red", "CPI"),
      [date |-> "empty", time |-> " empty ", currency |-> "USD",
       impact |-> "RED", event |-> "empty", extra |-> "empty"],
      [time |-> "All Day", currency |-> "USD", impact |-> "Gray",
       event |-> "Bank Holiday"],
      [date |-> "empty", currency |-> "USD", impact |-> "orange"],
      RowOf("empty", "empty", "USD", "Red", "Follow-up") }

RawRows == EventRows \cup OtherRows

RECURSIVE SeqsUpTo(_, _)
SeqsUpTo(S, n) ==
    IF n = 0
      THEN {<<>>}
      ELSE LET shorter == SeqsUpTo(S, n - 1)
           IN  shorter \cup {Append(q, x) : q \in {z \in shorter : Len(z) = n - 1},
                                            x \in S}

(***************************************************************************)
(* reformat_data, one iteration of the for loop per step.                  *)
(***************************************************************************)
InitNorm ==
    /\ CoordIdle
    /\ ConvIdle
    /\ SaveIdle
    /\ LogIdle
    /\ data \in SeqsUpTo(RawRows, MaxRows)
    /\ idx = 0
    /\ current_date = ""
    /\ current_day = ""
    /\ current_time = ""
    /\ structured_rows = <<>>
    /\ origin = <<>>

\* The row of this iteration, and the carried state after lines 56-66.
NextRow == data[idx + 1]

NextCarry ==
    CarryTime(CarryDate(Carry(current_date, current_day, current_time),
                        NextRow, Year), NextRow)

\* Lines 53-66: the next row is taken and the carried state updated.
TakeRow ==
    /\ idx < Len(data)
    /\ idx' = idx + 1
    /\ current_date' = NextCarry.date
    /\ current_day' = NextCarry.day
    /\ current_time' = NextCarry.time
    /\ UNCHANGED <<data, coordVars, convVars, saveVars, logVars>>

\* Lines 68-69: a row of one key is skipped once the carried state is updated.
SectionHeader ==
    /\ TakeRow
    /\ Cardinality(DOMAIN NextRow) = 1
    /\ UNCHANGED <<structured_rows, origin>>

\* Lines 71-95 with the record put in front of the list.
AppendRecord_Prepend ==
    /\ TakeRow
    /\ Cardinality(DOMAIN NextRow) # 1
    /\ filter_row(Candidate(NextCarry, NextRow))
    /\ structured_rows' = <<Candidate(NextCarry, NextRow)>> \o structured_rows
    /\ origin' = <<idx + 1>> \o origin

\* Lines 71-95, filter_row accepting: the record is appended.
AppendRecord ==
    /\ TakeRow
    /\ Cardinality(DOMAIN NextRow) # 1
    /\ filter_row(Candidate(NextCarry, NextRow))
    /\ structured_rows' = Append(structured_rows, Candidate(NextCarry, NextRow))
    /\ origin' = Append(origin, idx + 1)

\* Lines 71-94, filter_row rejecting: nothing is appended.
DropRecord ==
    /\ TakeRow
    /\ Cardinality(DOMAIN NextRow) # 1
    /\ ~filter_row(Candidate(NextCarry, NextRow))
    /\ UNCHANGED <<structured_rows, origin>>

NextNorm ==
    \/ SectionHeader
    \/ AppendRecord
    \/ DropRecord

SpecNorm == InitNorm /\ [][NextNorm]_vars

(***************************************************************************)
(* The row normalizer: properties.                                         *)
(***************************************************************************)
\* The carried state after the first n rows of a pass over rows.
RECURSIVE CarryAfter(_, _)
CarryAfter(rows, n) ==
    IF n = 0
      THEN Carry("", "", "")
      ELSE CarryTime(CarryDate(CarryAfter(rows, n - 1), rows[n], Year), rows[n])

\* The records of a pass over the first n rows that filters nothing.
RECURSIVE Unfiltered(_, _)
Unfiltered(rows, n) ==
    IF n = 0
      THEN <<>>
      ELSE IF Cardinality(DOMAIN rows[n]) = 1
             THEN Unfiltered(rows, n - 1)
             ELSE Append(Unfiltered(rows, n - 1),
                         Candidate(CarryAfter(rows, n), rows[n]))

Emitted == 1..Len(structured_rows)

PassDone == idx = Len(data)

DateIsSentinel(row) == "date" \in DOMAIN row /\ row["date"] = "empty"

DateNotSentinel(row) == "date" \in DOMAIN row /\ row["date"] # "empty"

DateMatches(row) ==
    DateNotSentinel(row) /\ extract_date_parts(row["date"], Year) # NoMatch

\* The last row before row i that satisfies P, 0 when there is none.
LastBefore(i, P(_)) ==
    LET S == {j \in 1..(i - 1) : P(data[j])}
    IN  IF S = {} THEN 0 ELSE CHOOSE j \in S : \A h \in S : h <= j

\* The date and day a row's own date text gives, empty when it gives none.
OwnDate(row) ==
    LET date_parts == extract_date_parts(row["date"], Year)
    IN  IF date_parts = NoMatch THEN [day |-> "", date |-> ""] ELSE date_parts

\* Record k carries the date and day of row j, or "" for both when j = 0.
CarriesDateOf(k, j) ==
    LET want == IF j = 0 THEN [day |-> "", date |-> ""] ELSE OwnDate(data[j])
    IN  /\ structured_rows[k]["date"] = want.date
        /\ structured_rows[k]["day"] = want.day

\* C7 as claimed: the record of a row whose date is "empty" carries the date
\* and day of the most recent earlier row whose date was not the sentinel,
\* or "" for both when there is no such row.
C7_InheritsLastNonSentinel ==
    \A k \in Emitted :
        DateIsSentinel(data[origin[k]]) =>
            CarriesDateOf(k, LastBefore(origin[k], DateNotSentinel))

\* C7 amended: the record of a row whose date is "empty" carries the date
\* and day of the most recent earlier row whose date text matched the
\* pattern <weekday> <month> <day number>, or "" for both when no earlier
\* row matched.
C7_InheritsLastMatch ==
    \A k \in Emitted :
        DateIsSentinel(data[origin[k]]) =>
            CarriesDateOf(k, LastBefore(origin[k], DateMatches))

\* C7 witness: a record was emitted for a row with date "empty" that follows
\* a matching row and, after it, a row whose date text did not match.
C7_Witness ==
    \E k \in Emitted :
        /\ DateIsSentinel(data[origin[k]])
        /\ LastBefore(origin[k], DateMatches) > 0
        /\ LastBefore(origin[k], DateNotSentinel)
              > LastBefore(origin[k], DateMatches)
        /\ structured_rows[k]["date"] # ""

Populated(v) == v \notin {"empty", ""}

\* The populated fields of a raw row as scraped.
PopulatedRaw(row) == {k \in DOMAIN row : Populated(row[k])}

\* The populated fields of row i once a sentinel date or time has taken the
\* carried value.
PopulatedInherited(i) ==
    LET row == data[i]
        carry == CarryAfter(data, i)
    IN  {k \in DOMAIN row :
            Populated(IF row[k] = "empty" /\ k = "time" THEN carry.time
                      ELSE IF row[k] = "empty" /\ k = "date" THEN carry.date
                      ELSE row[k])}

\* C8: a row with exactly one populated field, before or after inheriting
\* the carried date and time, produces no record.
C8_SinglePopulatedFieldNotEmitted ==
    \A k \in Emitted :
        /\ Cardinality(PopulatedRaw(data[origin[k]])) # 1
        /\ Cardinality(PopulatedInherited(origin[k])) # 1

\* C8 witness: the pass is over a row of several keys of which exactly one
\* is populated, also after inheriting, and no record came from it.
C8_Witness ==
    /\ PassDone
    /\ \E i \in 1..idx :
          /\ Cardinality(DOMAIN data[i]) > 1
          /\ Cardinality(PopulatedRaw(data[i])) = 1
          /\ Cardinality(PopulatedInherited(i)) = 1
          /\ \A k \in Emitted : origin[k] # i

\* C9: no field of any record equals the literal string "empty".
C9_NoEmptySentinel ==
    \A k \in Emitted :
        \A f \in DOMAIN structured_rows[k] : structured_rows[k][f] # "empty"

\* C9 witness: a record was emitted for a row whose extra field and whose
\* event were "empty" and whose carried time was "empty" after the trim.
C9_Witness ==
    \E k \in Emitted :
        /\ "extra" \in DOMAIN data[origin[k]]
        /\ data[origin[k]]["extra"] = "empty"
        /\ data[origin[k]]["event"] = "empty"
        /\ CarryAfter(data, origin[k]).time = "empty"
        /\ structured_rows[k]["extra"] = ""
        /\ structured_rows[k]["time"] = ""

\* The test of the record filter on a record.
Accepted(record) ==
    /\ record["currency"] \in ALLOWED_CURRENCY_CODES
    /\ LowerText(record["impact"]) \in ALLOWED_IMPACT_COLORS

\* The rows among the first n whose record fails the test.
Rejected(n) ==
    {i \in 1..n : /\ Cardinality(DOMAIN data[i]) # 1
                  /\ ~Accepted(Candidate(CarryAfter(data, i), data[i]))}

\* C10: every record has its currency and its lower-cased impact in the
\* allow-lists; the output is the output of an unfiltered pass without the
\* records that fail the test, one record fewer for each such row and every
\* other record unchanged.
C10_FilterDropsOnlyFailingRows ==
    /\ \A k \in Emitted : Accepted(structured_rows[k])
    /\ structured_rows = SelectSeq(Unfiltered(data, idx), Accepted)
    /\ Len(Unfiltered(data, idx)) - Len(structured_rows)
          = Cardinality(Rejected(idx))

\* C10 witness: the pass is over, exactly one row failed the test, a EUR
\* row, and a record was emitted for a row after it.
C10_Witness ==
    /\ PassDone
    /\ \E i \in 1..idx :
          /\ Rejected(idx) = {i}
          /\ data[i]["currency"] = "EUR"
          /\ Len(Unfiltered(data, idx)) = Len(structured_rows) + 1
          /\ \E k \in Emitted : origin[k] > i

\* The text of the date cell of the row taken last, "" when it has none.
LastDateText ==
    IF idx >= 1 /\ "date" \in DOMAIN data[idx] THEN data[idx]["date"] ELSE ""

\* A dated row followed by a row with neither date nor time.
FollowUpRows ==
    << RowOf("Sun Jun 1", "3:00am", "USD", "Red", "CPI"),
       RowOf("empty", "empty", "USD", "Red", "Follow-up") >>

\* C15: a date text that matches the pattern sets the carried date to
\* dd/mm/<year>, day and month zero-padded, and the carried day to the
\* weekday abbreviation; the rows "Sun Jun 1" 3:00am CPI and empty/empty
\* Follow-up, year 2025, give two records with date 01/06/2025, day Sun and
\* the same converted time.
C15_DateFormatAndFollowUp ==
    /\ LastDateText = "Sun Jun 1"
          => current_date = "01/06/2025" /\ current_day = "Sun"
    /\ LastDateText = "Mon Jun 2"
          => current_date = "02/06/2025" /\ current_day = "Mon"
    /\ (data = FollowUpRows /\ PassDone)
          => /\ Len(structured_rows) = 2
             /\ structured_rows[1].event = "CPI"
             /\ structured_rows[2].event = "Follow-up"
             /\ \A k \in {1, 2} :
                   /\ structured_rows[k].date = "01/06/2025"
                   /\ structured_rows[k].day = "Sun"
                   /\ structured_rows[k].time = "21:00"

C15_Witness ==
    /\ data = FollowUpRows
    /\ PassDone
    /\ Len(structured_rows) = 2
    /\ structured_rows[2].event = "Follow-up"
    /\ structured_rows[2].date = "01/06/2025"

\* C16: the output of reformat_data keeps the order of the input: every
\* record is the record of one input row already taken, no row gives two
\* records, and the records stand in the order of their rows.
C16_OutputIsSubsequence ==
    /\ Len(origin) = Len(structured_rows)
    /\ \A k \in Emitted :
          /\ origin[k] \in 1..idx
          /\ structured_rows[k]
                = Candidate(CarryAfter(data, origin[k]), data[origin[k]])
    /\ \A j \in Emitted : \A k \in Emitted : j < k => origin[j] < origin[k]

\* Three rows of which the second is dropped: the records of the first and
\* the third, in that order.
C16_Witness ==
    /\ PassDone
    /\ Len(data) = 3
    /\ origin = <<1, 3>>
    /\ structured_rows[1].date = "01/06/2025"
    /\ structured_rows[2].date = "02/06/2025"

\* The row has a time text of its own.
HasOwnTime(row) == "time" \in DOMAIN row /\ row["time"] # "empty"

\* The trimmed time text of the last of the first n rows that has one, ""
\* when none has.
RawTimeAfter(n) ==
    LET j == LastBefore(n + 1, HasOwnTime)
    IN  IF j = 0 THEN "" ELSE Strip(data[j]["time"])

\* The converter applied once to the raw time carried at the row of record k.
ConvertedOnce(k) ==
    convert_time_zone(structured_rows[k]["date"], RawTimeAfter(origin[k]),
                      "Europe/Berlin", TARGET_TIMEZONE).value

\* C21 as claimed: the carried time is always the trimmed time text of an
\* input row or the initial "", never a converted value, and the time of
\* every emitted record is the converter applied once to that raw time.
C21_TimeConvertedOnce ==
    /\ current_time = RawTimeAfter(idx)
    /\ \A k \in Emitted : structured_rows[k]["time"] = ConvertedOnce(k)

\* C21 amended: the carried time is always the trimmed time text of an input
\* row or the initial "", never a converted value; the time of every
\* emitted record is the converter applied once to that raw time, except
\* that a result equal to "empty" is emitted as "".
C21_TimeConvertedOnceThenCleared ==
    /\ current_time = RawTimeAfter(idx)
    /\ \A k \in Emitted :
          structured_rows[k]["time"]
             = IF ConvertedOnce(k) = "empty" THEN "" ELSE ConvertedOnce(k)

\* A record that inherits its time: the carried time is still 3:00am and the
\* record shows 21:00.
C21_Witness ==
    /\ PassDone
    /\ Len(data) = 2
    /\ ~HasOwnTime(data[2])
    /\ origin = <<1, 2>>
    /\ current_time = "3:00am"
    /\ structured_rows[1]["time"] = "21:00"
    /\ structured_rows[2]["time"] = "21:00"

(***************************************************************************)
(* utils.convert_time_zone: one call on string arguments.                  *)
(***************************************************************************)
DateInputs == {"", "01/06/2025", "30/06/2025", "31/06/2025", "Sun Jun 1"}

TimeInputs == {"", "3:00am", "1:30pm", "12:00am", "12:30pm", "All Day",
               "all day", "Tentative", "TENTATIVE", "15:00", "Day 1",
               "empty"}

FromZoneInputs == {"Europe/Berlin", "Europe/Atlantis"}

ToZoneInputs == {"America/New_York", "UTC", "Mars/Olympus"}

InitConv ==
    /\ CoordIdle
    /\ NormIdle
    /\ SaveIdle
    /\ LogIdle
    /\ conv_args \in [date_str : DateInputs, time_str : TimeInputs,
                      from_zone_str : FromZoneInputs,
                      to_zone_str : ToZoneInputs]
    /\ conv_result = Pending

\* The call, from its first line to its return or its exception.
Convert ==
    /\ conv_result = Pending
    /\ conv_result' = convert_time_zone(conv_args.date_str,
                                        conv_args.time_str,
                                        conv_args.from_zone_str,
                                        conv_args.to_zone_str)
    /\ UNCHANGED <<conv_args, coordVars, normVars, saveVars, logVars>>

NextConv == Convert

SpecConv == InitConv /\ [][NextConv]_vars

Converted == conv_result # Pending

\* The texts strftime("%H:%M") can produce.
ClockValues == {FormatClock(m) : m \in 0..1439}

\* C11: convert_time_zone never raises on string arguments; it returns the
\* time unchanged when the date or the time is empty, when the time is
\* "all day" or "tentative" in any letter case, when a zone name is unknown
\* and when the date or the time does not parse; a value other than the
\* argument is returned only for a 12-hour clock time on a valid date, and
\* is then an HH:MM text.
C11_ConvertNeverRaises ==
    Converted =>
        LET a == conv_args
            unchanged == conv_result = Returned(a.time_str)
        IN  /\ ~conv_result.raised
            /\ (a.date_str = "" \/ a.time_str = "") => unchanged
            /\ a.time_str \in {"All Day", "all day", "Tentative", "TENTATIVE"}
                  => unchanged
            /\ (a.from_zone_str \notin {"Europe/Berlin"}
                  \/ a.to_zone_str \notin {"America/New_York", "UTC"})
                  => unchanged
            /\ (a.time_str \notin {"3:00am", "1:30pm", "12:00am", "12:30pm"}
                  \/ a.date_str \notin {"01/06/2025", "30/06/2025"})
                  => unchanged
            /\ ~unchanged => conv_result.value \in ClockValues

\* 3:00am in Berlin on 1 June 2025 is 21:00 in New York.
C11_Witness ==
    /\ Converted
    /\ conv_args.date_str = "01/06/2025"
    /\ conv_args.time_str = "3:00am"
    /\ conv_args.from_zone_str = "Europe/Berlin"
    /\ conv_args.to_zone_str = "America/New_York"
    /\ conv_result = Returned("21:00")

(***************************************************************************)
(* utils.save_data: save_csv, then convex_client.save_to_convex.           *)
(***************************************************************************)
\* reformat_data as a function of its arguments: the carried state and the
\* records after the first n rows.
RECURSIVE PassOver(_, _, _)
PassOver(rows, n, year) ==
    IF n = 0
      THEN [carry |-> Carry("", "", ""), out |-> <<>>]
      ELSE LET prev == PassOver(rows, n - 1, year)
               row == rows[n]
               carry == CarryTime(CarryDate(prev.carry, row, year), row)
               new_row == Candidate(carry, row)
           IN  [carry |-> carry,
                out |-> IF Cardinality(DOMAIN row) # 1 /\ filter_row(new_row)
                          THEN Append(prev.out, new_row)
                          ELSE prev.out]

reformat_data(rows, year) == PassOver(rows, Len(rows), year).out

\* The list of raw rows after a pass that works on the rows themselves
\* instead of on copies (new_row = row).
DataAfterPass_InPlace(rows, year) ==
    [n \in 1..Len(rows) |->
        LET carry == PassOver(rows, n, year).carry
            before == PassOver(rows, n - 1, year).carry
        IN  IF Cardinality(DOMAIN rows[n]) # 1
              THEN Candidate(carry, rows[n])
              ELSE IF "time" \in DOMAIN rows[n] /\ rows[n]["time"] = "empty"
                     THEN [time |-> before.time]
                     ELSE rows[n]]

\* The list of raw rows after a pass of reformat_data: line 54 copies each
\* row and every assignment goes to the copy or to a local name.
DataAfterPass(rows, year) == rows

\* int(year)
YearNumber(year) == CASE year = "2025" -> 2025

\* convex_client.py lines 62-85; scraped_at, the time of the call, is left
\* out.
clean_record(record, month, year) ==
    [source |-> "forex_factory",
     month |-> month,
     year |-> YearNumber(year),
     date |-> Get(record, "date"),
     time |-> Get(record, "time"),
     day |-> Get(record, "day"),
     currency |-> Get(record, "currency"),
     impact |-> Get(record, "impact"),
     event |-> Get(record, "event"),
     actual |-> Get(record, "actual"),
     forecast |-> Get(record, "forecast"),
     previous |-> Get(record, "previous"),
     detail_url |-> Get(record, "detail"),
     event_key |-> Get(record, "date") \o "-" \o Get(record, "time")
                      \o "-" \o Get(record, "event"),
     is_high_impact |-> LowerText(Get(record, "impact")) = "red",
     has_data |-> \/ Get(record, "actual") # ""
                  \/ Get(record, "forecast") # ""
                  \/ Get(record, "previous") # ""]

\* Line 88: the records that are uploaded.
HasContent(record) == record.event # "" /\ record.date # ""

\* transform_scraped_data that keeps every record.
transform_scraped_data_KeepAll(raw_data, month, year) ==
    [k \in 1..Len(raw_data) |-> clean_record(raw_data[k], month, year)]

transform_scraped_data(raw_data, month, year) ==
    SelectSeq([k \in 1..Len(raw_data) |->
                  clean_record(raw_data[k], month, year)], HasContent)

\* A failure dictionary that carries no message.
ConvexFailure_NoError(error) ==
    [success |-> FALSE, error |-> None, saved_count |-> 0]

\* convex_client.py lines 108-113, 127-132 and 172-178: the failure returns.
ConvexFailure(error) == [success |-> FALSE, error |-> error, saved_count |-> 0]

NotAvailable == "Convex client not available. Check CONVEX_URL environment variable."

NoValidData == "No valid data to save after transformation"

\* utils.py lines 137-140
NewResults ==
    [csv |-> [attempted |-> FALSE, success |-> FALSE, error |-> None],
     convex |-> [attempted |-> FALSE, success |-> FALSE, error |-> None,
                 saved_count |-> 0]]

\* The raw rows save_data is called with.
SaveRows ==
    { RowOf("Sun Jun 1", "3:00am", "USD", "Red", "CPI"),
      RowOf("empty", "empty", "USD", "Red", "CPI"),
      RowOf("empty", "1:30pm", "USD", "orange", "empty"),
      RowOf("Mon Jun 2", "3:00am", "EUR", "Red", "CPI") }

StorageMethods == {"csv", "convex", "both", "none"}

InitSave ==
    /\ CoordIdle
    /\ NormIdle
    /\ ConvIdle
    /\ LogIdle
    /\ save_args \in [data : SeqsUpTo(SaveRows, MaxRows),
                      month : {"June"},
                      year : {Year},
                      storage_method : StorageMethods,
                      replace_existing : BOOLEAN]
    /\ client \in {None, "ConvexClient"}
    /\ save_pc = "csv"
    /\ results = NewResults
    /\ csv_file = <<>>
    /\ clean_data = <<>>
    /\ rec_i = 0
    /\ saved_count = 0
    /\ calls = <<>>
    /\ convex_result = Pending
    /\ convex_data = <<>>

Structured == reformat_data(save_args.data, save_args.year)

WantsCsv == save_args.storage_method \in {"csv", "both"}

WantsConvex == save_args.storage_method \in {"convex", "both"}

\* save_data's argument after one more pass of reformat_data over it.
AfterPass ==
    [save_args EXCEPT !.data = DataAfterPass(save_args.data, save_args.year)]

OtherFrame == <<client, coordVars, normVars, convVars, logVars>>

SaveFrame == <<save_args, convex_data, OtherFrame>>

\* utils.py line 143, the method naming no CSV.
CsvSkipped ==
    /\ save_pc = "csv"
    /\ ~WantsCsv
    /\ save_pc' = "convex"
    /\ UNCHANGED <<results, csv_file, clean_data, rec_i, saved_count, calls,
                   convex_result, SaveFrame>>

\* utils.py lines 144-146, save_csv writing the file and returning True.
CsvSaved ==
    /\ save_pc = "csv"
    /\ WantsCsv
    /\ Structured # <<>>
    /\ csv_file' = Structured
    /\ results' = [results EXCEPT !.csv.attempted = TRUE,
                                  !.csv.success = TRUE]
    /\ save_pc' = "convex"
    /\ save_args' = AfterPass
    /\ UNCHANGED convex_data
    /\ UNCHANGED <<clean_data, rec_i, saved_count, calls, convex_result,
                   OtherFrame>>

\* utils.py lines 144-146, save_csv returning False at its line 113-114.
CsvNothingToSave ==
    /\ save_pc = "csv"
    /\ WantsCsv
    /\ Structured = <<>>
    /\ results' = [results EXCEPT !.csv.attempted = TRUE,
                                  !.csv.success = FALSE]
    /\ save_pc' = "convex"
    /\ save_args' = AfterPass
    /\ UNCHANGED convex_data
    /\ UNCHANGED <<csv_file, clean_data, rec_i, saved_count, calls,
                   convex_result, OtherFrame>>

\* save_csv raising with no except clause around it: save_data is left.
CsvRaises_Unhandled ==
    /\ save_pc = "csv"
    /\ WantsCsv
    /\ Structured # <<>>
    /\ results' = [results EXCEPT !.csv.attempted = TRUE]
    /\ save_pc' = "raised"
    /\ save_args' = AfterPass
    /\ UNCHANGED convex_data
    /\ UNCHANGED <<csv_file, clean_data, rec_i, saved_count, calls,
                   convex_result, OtherFrame>>

\* utils.py lines 144-148, save_csv raising while it writes the file.
CsvRaises ==
    /\ save_pc = "csv"
    /\ WantsCsv
    /\ Structured # <<>>
    /\ results' = [results EXCEPT !.csv.attempted = TRUE,
                                  !.csv.error = "write failed"]
    /\ save_pc' = "convex"
    /\ save_args' = AfterPass
    /\ UNCHANGED convex_data
    /\ UNCHANGED <<csv_file, clean_data, rec_i, saved_count, calls,
                   convex_result, OtherFrame>>

\* utils.py lines 151 and 172, the method naming no remote backend.
ConvexSkipped ==
    /\ save_pc = "convex"
    /\ ~WantsConvex
    /\ save_pc' = "done"
    /\ UNCHANGED <<results, csv_file, clean_data, rec_i, saved_count, calls,
                   convex_result, SaveFrame>>

\* utils.py lines 152-155 and 164-165: convex_client cannot be imported.
ConvexImportFails ==
    /\ save_pc = "convex"
    /\ WantsConvex
    /\ client = None
    /\ results' = [results EXCEPT !.convex.attempted = TRUE,
                                  !.convex.error = "Convex client not available"]
    /\ save_pc' = "done"
    /\ UNCHANGED <<csv_file, clean_data, rec_i, saved_count, calls,
                   convex_result, SaveFrame>>

\* What lines 157-162 of utils.py make of the dictionary save_to_convex
\* returned.
Reported(convex_dict) ==
    [results EXCEPT
        !.convex.attempted = TRUE,
        !.convex.success = convex_dict.success,
        !.convex.saved_count = convex_dict.saved_count,
        !.convex.error = IF convex_dict.success THEN results.convex.error
                                                ELSE convex_dict.error]

\* save_to_convex lines 108-113: no client.
ConvexUnavailable ==
    /\ save_pc = "convex"
    /\ WantsConvex
    /\ client = None
    /\ convex_result' = ConvexFailure(NotAvailable)
    /\ results' = Reported(ConvexFailure(NotAvailable))
    /\ save_pc' = "done"
    /\ save_args' = AfterPass
    /\ convex_data' = Structured
    /\ UNCHANGED <<csv_file, clean_data, rec_i, saved_count, calls, OtherFrame>>

\* utils.py lines 152-158 and save_to_convex up to its line 116.
EnterConvex ==
    /\ save_pc = "convex"
    /\ WantsConvex
    /\ client # None
    /\ results' = [results EXCEPT !.convex.attempted = TRUE]
    /\ save_pc' = "replace"
    /\ save_args' = AfterPass
    /\ convex_data' = Structured
    /\ UNCHANGED <<csv_file, clean_data, rec_i, saved_count, calls,
                   convex_result, OtherFrame>>

Mutation(fn, arg, ok) == [fn |-> fn, arg |-> arg, ok |-> ok]

\* A delete that is issued a second time when the first one raises.
DeleteByMonth_Retried ==
    /\ save_pc = "replace"
    /\ save_args.replace_existing
    /\ LET delete(ok) == Mutation("economicEvents:deleteEventsByMonth",
                                  [month |-> save_args.month,
                                   year |-> YearNumber(save_args.year)], ok)
       IN  \/ calls' = Append(calls, delete(TRUE))
           \/ \E ok \in BOOLEAN :
                 calls' = Append(Append(calls, delete(FALSE)), delete(ok))
    /\ save_pc' = "transform"
    /\ UNCHANGED <<results, csv_file, clean_data, rec_i, saved_count,
                   convex_result, SaveFrame>>

\* save_to_convex lines 117-120 and delete_events_by_month: one mutation,
\* whose exception delete_events_by_month turns into a failure dictionary.
DeleteByMonth ==
    /\ save_pc = "replace"
    /\ save_args.replace_existing
    /\ \E ok \in BOOLEAN :
          calls' = Append(calls,
                          Mutation("economicEvents:deleteEventsByMonth",
                                   [month |-> save_args.month,
                                    year |-> YearNumber(save_args.year)], ok))
    /\ save_pc' = "transform"
    /\ UNCHANGED <<results, csv_file, clean_data, rec_i, saved_count,
                   convex_result, SaveFrame>>

\* save_to_convex line 117, replace_existing false.
KeepExisting ==
    /\ save_pc = "replace"
    /\ ~save_args.replace_existing
    /\ save_pc' = "transform"
    /\ UNCHANGED <<results, csv_file, clean_data, rec_i, saved_count, calls,
                   convex_result, SaveFrame>>

Transformed == transform_scraped_data(convex_data, save_args.month,
                                      save_args.year)

\* save_to_convex lines 150-156
batch_info ==
    [month |-> save_args.month,
     year |-> YearNumber(save_args.year),
     total_events |-> Len(clean_data),
     saved_events |-> saved_count,
     source |-> "forex_factory"]

\* save_to_convex lines 164-170
ConvexSuccess ==
    [success |-> TRUE, saved_count |-> saved_count,
     total_processed |-> Len(clean_data), month |-> save_args.month,
     year |-> save_args.year]

\* save_to_convex without the return of lines 126-132: the loop runs over no
\* record, the metadata is written and success is returned.
NoRecordsLeft_NoEarlyReturn ==
    /\ save_pc = "transform"
    /\ Transformed = <<>>
    /\ calls' = Append(calls, Mutation("economicEvents:saveScrapeSession",
                                       batch_info, TRUE))
    /\ convex_result' = ConvexSuccess
    /\ results' = Reported(ConvexSuccess)
    /\ save_pc' = "done"
    /\ UNCHANGED <<csv_file, clean_data, rec_i, saved_count, SaveFrame>>

\* save_to_convex lines 124-132: nothing is left to upload.
NoRecordsLeft ==
    /\ save_pc = "transform"
    /\ Transformed = <<>>
    /\ convex_result' = ConvexFailure(NoValidData)
    /\ results' = Reported(ConvexFailure(NoValidData))
    /\ save_pc' = "done"
    /\ UNCHANGED <<csv_file, clean_data, rec_i, saved_count, calls, SaveFrame>>

\* save_to_convex lines 124-135: the loop is entered.
TransformData ==
    /\ save_pc = "transform"
    /\ Transformed # <<>>
    /\ clean_data' = Transformed
    /\ save_pc' = "loop"
    /\ UNCHANGED <<results, csv_file, rec_i, saved_count, calls,
                   convex_result, SaveFrame>>

\* save_to_convex lines 137-143: the write of the next record succeeds.
WriteRecord ==
    /\ save_pc = "loop"
    /\ rec_i < Len(clean_data)
    /\ calls' = Append(calls, Mutation("economicEvents:saveEconomicEvent",
                                       clean_data[rec_i + 1], TRUE))
    /\ saved_count' = saved_count + 1
    /\ rec_i' = rec_i + 1
    /\ UNCHANGED <<save_pc, results, csv_file, clean_data, convex_result,
                   SaveFrame>>

\* A failed write that ends the loop.
WriteRecordFails_Breaks ==
    /\ save_pc = "loop"
    /\ rec_i < Len(clean_data)
    /\ calls' = Append(calls, Mutation("economicEvents:saveEconomicEvent",
                                       clean_data[rec_i + 1], FALSE))
    /\ rec_i' = Len(clean_data)
    /\ UNCHANGED <<save_pc, results, csv_file, clean_data, saved_count,
                   convex_result, SaveFrame>>

\* save_to_convex lines 137-147: the write raises, the loop goes on.
WriteRecordFails ==
    /\ save_pc = "loop"
    /\ rec_i < Len(clean_data)
    /\ calls' = Append(calls, Mutation("economicEvents:saveEconomicEvent",
                                       clean_data[rec_i + 1], FALSE))
    /\ rec_i' = rec_i + 1
    /\ UNCHANGED <<save_pc, results, csv_file, clean_data, saved_count,
                   convex_result, SaveFrame>>

\* Lines 149-170 once the loop is over: the run metadata is written, with
\* the outcome ok, and save_to_convex returns.
SaveSessionAndReturn(ok) ==
    /\ save_pc = "loop"
    /\ rec_i = Len(clean_data)
    /\ calls' = Append(calls, Mutation("economicEvents:saveScrapeSession",
                                       batch_info, ok))
    /\ convex_result' = ConvexSuccess
    /\ results' = Reported(ConvexSuccess)
    /\ save_pc' = "done"
    /\ UNCHANGED <<csv_file, clean_data, rec_i, saved_count, SaveFrame>>

SaveSession ==
    /\ save_pc = "loop"
    /\ SaveSessionAndReturn(TRUE)

\* save_to_convex lines 158-162: the metadata write raises and is logged.
SaveSessionFails ==
    /\ save_pc = "loop"
    /\ SaveSessionAndReturn(FALSE)

NextSave ==
    \/ CsvSkipped
    \/ CsvSaved
    \/ CsvNothingToSave
    \/ CsvRaises
    \/ ConvexSkipped
    \/ ConvexImportFails
    \/ ConvexUnavailable
    \/ EnterConvex
    \/ DeleteByMonth
    \/ KeepExisting
    \/ NoRecordsLeft
    \/ TransformData
    \/ WriteRecord
    \/ WriteRecordFails
    \/ SaveSession
    \/ SaveSessionFails

SpecSave == InitSave /\ [][NextSave]_vars

SaveDone == save_pc = "done"

\* C12: with method "both", the CSV file written and no remote client
\* configured, save_data reports csv attempted and successful, and convex
\* attempted, not successful and with an error.
C12_BothWithRemoteUnconfigured ==
    (/\ SaveDone
     /\ save_args.storage_method = "both"
     /\ csv_file # <<>>
     /\ client = None)
        => /\ results.csv.attempted
           /\ results.csv.success
           /\ results.convex.attempted
           /\ ~results.convex.success
           /\ results.convex.error # None

C12_Witness ==
    /\ SaveDone
    /\ save_args.storage_method = "both"
    /\ csv_file # <<>>
    /\ client = None
    /\ results.csv.success
    /\ results.convex.attempted
    /\ results.convex.error = NotAvailable

\* C13: save_data never raises on a backend failure; once the CSV branch is
\* over csv.attempted tells whether the method names the CSV, and on return
\* convex.attempted tells whether it names the remote backend, whatever the
\* CSV branch did; with a client configured save_to_convex has then been
\* called.
C13_BackendsIndependent ==
    /\ save_pc # "raised"
    /\ save_pc # "csv" => (results.csv.attempted <=> WantsCsv)
    /\ SaveDone => (results.convex.attempted <=> WantsConvex)
    /\ (SaveDone /\ WantsConvex /\ client # None) => convex_result # Pending

\* The CSV write raised and the remote upload still went through.
C13_Witness ==
    /\ SaveDone
    /\ save_args.storage_method = "both"
    /\ results.csv.error = "write failed"
    /\ results.convex.attempted
    /\ results.convex.success
    /\ results.convex.saved_count > 0

(***************************************************************************)
(* app.add_activity_log in the worker threads, GET /logs beside them.      *)
(***************************************************************************)
\* app.py line 59: the length above which the oldest entry is removed.
LogCap == 50

\* app.py line 103: the entries a response carries.
LogTail == 20

InitLog ==
    /\ CoordIdle
    /\ NormIdle
    /\ ConvIdle
    /\ SaveIdle
    /\ LogIdle

\* Lines 51-56: the entry is built and appended.  The entries are told
\* apart by the order in which they were appended.
AppendEntry(w) ==
    /\ log_pc[w] = "idle"
    /\ log_count < MaxLogCalls
    /\ log_count' = log_count + 1
    /\ activity_logs' = Append(activity_logs, [timestamp |-> log_count + 1])
    /\ log_pc' = [log_pc EXCEPT ![w] = "s59"]
    /\ UNCHANGED logs_response

\* Line 59: the length is tested.
TestLength(w) ==
    /\ log_pc[w] = "s59"
    /\ log_pc' = [log_pc EXCEPT ![w] = IF Len(activity_logs) > LogCap
                                         THEN "s60" ELSE "idle"]
    /\ UNCHANGED <<activity_logs, log_count, logs_response>>

\* Line 60: activity_logs.pop(0)
PopOldest(w) ==
    /\ log_pc[w] = "s60"
    /\ activity_logs' = Tail(activity_logs)
    /\ log_pc' = [log_pc EXCEPT ![w] = "idle"]
    /\ UNCHANGED <<log_count, logs_response>>

\* list[-n:]
LastEntries(list, n) ==
    IF Len(list) <= n THEN list ELSE SubSeq(list, Len(list) - n + 1, Len(list))

\* Lines 96-105: GET /logs, in a thread of the web server.
get_logs ==
    /\ logs_response' = [logs |-> LastEntries(activity_logs, LogTail),
                         total_logs |-> Len(activity_logs)]
    /\ UNCHANGED <<activity_logs, log_pc, log_count>>

LogFrame == <<coordVars, normVars, convVars, saveVars>>

NextLog ==
    \/ \E w \in Writers : AppendEntry(w) /\ UNCHANGED LogFrame
    \/ \E w \in Writers : TestLength(w) /\ UNCHANGED LogFrame
    \/ \E w \in Writers : PopOldest(w) /\ UNCHANGED LogFrame
    \/ get_logs /\ UNCHANGED LogFrame

SpecLog == InitLog /\ [][NextLog]_vars

\* C14: whatever the interleaving of the add_activity_log calls, a /logs
\* reader never finds more than 50 entries in the activity log.
C14_ReaderSeesAtMostCap ==
    logs_response # Pending => logs_response.total_logs <= LogCap

\* The positions in calls of the three kinds of remote call.
DeleteCalls ==
    {k \in DOMAIN calls : calls[k].fn = "economicEvents:deleteEventsByMonth"}

WriteCalls ==
    {k \in DOMAIN calls : calls[k].fn = "economicEvents:saveEconomicEvent"}

SessionCalls ==
    {k \in DOMAIN calls : calls[k].fn = "economicEvents:saveScrapeSession"}

\* save_to_convex is past its line 120, or has returned from beyond it.
PastReplace ==
    \/ save_pc \in {"transform", "loop"}
    \/ SaveDone /\ WantsConvex /\ client # None

\* C17: with replace_existing true save_to_convex issues the delete call
\* exactly once and before every record write; with replace_existing false
\* it issues none; the run-metadata write comes after every record of the
\* upload list has had its write attempt.
C17_DeleteFirstSessionLast ==
    /\ ~save_args.replace_existing => DeleteCalls = {}
    /\ save_args.replace_existing
          => /\ DeleteCalls \subseteq {1}
             /\ PastReplace => DeleteCalls = {1}
    /\ \A d \in DeleteCalls : \A w \in WriteCalls : d < w
    /\ \A m \in SessionCalls :
          /\ m = Len(calls)
          /\ Cardinality(WriteCalls) = Len(clean_data)
          /\ \A w \in WriteCalls : w < m

\* A delete, two record writes, then the metadata write.
C17_Witness ==
    /\ SaveDone
    /\ save_args.replace_existing
    /\ Len(calls) = 4
    /\ DeleteCalls = {1}
    /\ WriteCalls = {2, 3}
    /\ SessionCalls = {4}

\* The record writes issued so far, in order, and those that succeeded.
WritesIssued == SelectSeq(calls, LAMBDA c : c.fn = "economicEvents:saveEconomicEvent")

WritesSucceeded == SelectSeq(WritesIssued, LAMBDA c : c.ok)

\* C18: the records of the upload list get one write attempt each, in
\* order, whatever the outcome of the earlier writes; saved_count is the
\* number of writes that succeeded; save_to_convex returns success with
\* that count whether the metadata write succeeds or raises.
C18_LoopContinuesOnError ==
    /\ Len(WritesIssued) = rec_i
    /\ \A k \in 1..rec_i : WritesIssued[k].arg = clean_data[k]
    /\ saved_count = Len(WritesSucceeded)
    /\ SessionCalls # {}
          => /\ rec_i = Len(clean_data)
             /\ convex_result.success
             /\ convex_result.saved_count = Len(WritesSucceeded)
             /\ results.convex.success
             /\ results.convex.saved_count = Len(WritesSucceeded)

\* The first write fails, the second succeeds, the metadata write fails.
C18_Witness ==
    /\ SaveDone
    /\ Len(WritesIssued) = 2
    /\ ~WritesIssued[1].ok
    /\ WritesIssued[2].ok
    /\ \E m \in SessionCalls : ~calls[m].ok
    /\ results.convex.success
    /\ results.convex.saved_count = 1

\* save_data has returned from an upload with a client configured.
Uploaded == SaveDone /\ WantsConvex /\ client # None

\* C19 as stated: with the remote backend configured there are as many write
\* attempts as normalized records, those with an empty date or event
\* included.
C19_OneWritePerNormalizedRecord ==
    Uploaded => Len(WritesIssued) = Len(Structured)

\* The normalized records with an event and a date.
WithEventAndDate ==
    SelectSeq(Structured, LAMBDA r : r["event"] # "" /\ r["date"] # "")

\* C19 amended: with the remote backend configured there is one write
\* attempt for each normalized record whose event and date are both
\* non-empty, in order, and none for the other records.
C19_OneWritePerRecordWithContent ==
    Uploaded =>
        /\ Len(WritesIssued) = Len(WithEventAndDate)
        /\ \A k \in 1..Len(WritesIssued) :
              /\ WritesIssued[k].arg.event = WithEventAndDate[k]["event"]
              /\ WritesIssued[k].arg.date = WithEventAndDate[k]["date"]
              /\ WritesIssued[k].arg.time = WithEventAndDate[k]["time"]

\* Three normalized records, one without a date and one without an event:
\* one write.
C19_Witness ==
    /\ Uploaded
    /\ Len(Structured) = 3
    /\ \E k \in 1..3 : Structured[k]["date"] = ""
    /\ \E k \in 1..3 : Structured[k]["event"] = ""
    /\ Len(WritesIssued) = 1

\* C22: whenever save_data attempted the CSV and it did not succeed, the
\* result carries an error message for it, also when there was no record to
\* write.
C22_CsvFailureHasError ==
    (results.csv.attempted /\ ~results.csv.success)
        => results.csv.error # None

\* save_to_convex has been called with the records of the second pass.
HandedOver ==
    \/ save_pc \in {"replace", "transform", "loop"}
    \/ convex_result # Pending

NothingToUpload ==
    \A k \in 1..Len(convex_data) :
        convex_data[k]["event"] = "" \/ convex_data[k]["date"] = ""

\* C24: with replace_existing true and a client configured, when no record
\* has both an event and a date save_to_convex has issued the delete call
\* and nothing else, and returns success false with saved_count 0.
C24_DeleteThenNothingUploaded ==
    (Uploaded /\ save_args.replace_existing /\ NothingToUpload)
        => /\ Len(calls) = 1
           /\ DeleteCalls = {1}
           /\ WriteCalls = {}
           /\ SessionCalls = {}
           /\ convex_result = ConvexFailure(NoValidData)
           /\ ~results.convex.success
           /\ results.convex.saved_count = 0

\* Two records without a date: the events of the month were deleted and
\* nothing was written.
C24_Witness ==
    /\ Uploaded
    /\ save_args.replace_existing
    /\ Len(convex_data) = 2
    /\ NothingToUpload
    /\ Len(calls) = 1
    /\ calls[1].fn = "economicEvents:deleteEventsByMonth"
    /\ calls[1].ok
    /\ results.convex.error = NoValidData

====
